---------------------------- MODULE Spec2Model ----------------------------
(***************************************************************************)
(* SupabaseCache (src/src/cache/supabase-cache.ts) as a state machine.     *)
(*                                                                         *)
(* Strings are sequences of one-character strings, so that join, split and *)
(* startsWith are computed as the code computes them.  Times are whole     *)
(* seconds since the epoch (the code works in milliseconds; every duration *)
(* of the code is a whole number of seconds).  Every call on the Supabase  *)
(* client is an await: the handler stops at it and another handler or the  *)
(* sweep timer can run before its reply.  A reply is "ok", "error"         *)
(* (supabase-js resolves with {error}, it does not throw) or "hang" (the   *)
(* promise never settles: the client sets no timeout).                     *)
(***************************************************************************)
EXTENDS Integers, Sequences, FiniteSets, Bags, TLC

(***************************************************************************)
(* Bounds of the model.                                                    *)
(***************************************************************************)
MaxOps == 2
MaxTicks == 2
MaxSpan == 12
StartTime == 1700000000

(***************************************************************************)
(* Program constants (seconds).                                            *)
(***************************************************************************)
MEMORY_TTL == 60
SHORT_TTL == 86400
LONG_TTL == 604800
THREE_MONTHS == 7776000
SWEEP_TTL == 60
WARM_DELAY == 1
INT4_MAX == 2147483647

(***************************************************************************)
(* Values.                                                                 *)
(***************************************************************************)
Undefined == <<"undefined">>
UndefinedNum == -1
NULL == <<"null">>
NoRow == [cache_key |-> NULL, dataflow_id |-> NULL, start_period |-> NULL,
          data |-> NULL, storage_url |-> NULL, cached_at |-> 0,
          accessed_at |-> 0]

Handlers == {1, 2}
Payloads == {<<"o1">>, <<"o1", "o2">>}
Outcomes == {"ok", "error", "hang"}
Answers == {"ok", "error"}

(* INTERVAL '30 days' of oecd_cleanup_old_stats, in seconds.                *)
STATS_RETENTION == 2592000

(* The instants at which the clock is read, as offsets from StartTime: on  *)
(* the memory TTL, on the short TTL, on the long TTL and past it, on the   *)
(* retention of the access events and past it.                             *)
Instants == << 0, MEMORY_TTL, SHORT_TTL, LONG_TTL, LONG_TTL + 1,
              STATS_RETENTION, STATS_RETENTION + 1 >>

EmptyStr == <<>>
Colon == <<":">>
All == <<"a", "l", "l">>
DigitChars == <<"0", "1", "2", "3", "4", "5", "6", "7", "8", "9">>
STORAGE_BUCKET == <<"oecd-dataflow-data">>
Y2020 == <<"2", "0", "2", "0">>
Y2023_10 == <<"2", "0", "2", "3", "-", "1", "0">>
Q2023_1 == <<"2", "0", "2", "3", "-", "Q", "1">>

Query(d, f, s, e, n) ==
    [dataflowId |-> d, filter |-> f, startPeriod |-> s, endPeriod |-> e,
     lastNObservations |-> n]

Queries ==
    { Query(<<"A">>, Undefined, Undefined, Undefined, 100),
      Query(<<"A">>, Undefined, Y2020, Undefined, UndefinedNum) }

Dataflows == {q.dataflowId : q \in Queries}

(***************************************************************************)
(* String helpers.                                                         *)
(***************************************************************************)
RECURSIVE NumToStr(_)
NumToStr(n) ==
    IF n < 10 THEN <<DigitChars[n + 1]>>
    ELSE NumToStr(n \div 10) \o <<DigitChars[(n % 10) + 1]>>

RECURSIVE Join(_, _)
Join(parts, sep) ==
    IF Len(parts) = 0 THEN EmptyStr
    ELSE IF Len(parts) = 1 THEN parts[1]
    ELSE parts[1] \o sep \o Join(Tail(parts), sep)

StrOr(v, d) == IF v = Undefined \/ v = EmptyStr THEN d ELSE v

NumOr(n, d) == IF n = UndefinedNum \/ n = 0 THEN d ELSE NumToStr(n)

startsWith(s, prefix) ==
    /\ Len(prefix) <= Len(s)
    /\ SubSeq(s, 1, Len(prefix)) = prefix

split0(s) ==
    LET hits == {i \in 1..Len(s) : s[i] = ":"}
    IN  IF hits = {} THEN s
        ELSE SubSeq(s, 1, (CHOOSE i \in hits : \A j \in hits : i <= j) - 1)

generateCacheKey(params) ==
    Join(<< params.dataflowId,
            StrOr(params.filter, All),
            StrOr(params.startPeriod, EmptyStr),
            StrOr(params.endPeriod, EmptyStr),
            NumOr(params.lastNObservations, EmptyStr) >>, Colon)

Keys == {generateCacheKey(q) : q \in Queries}

(***************************************************************************)
(* Dates: new Date(s) for the period strings in use; any other string      *)
(* gives an Invalid Date, whose comparisons are all false.                 *)
(***************************************************************************)
ParseDate(s) ==
    IF s = Y2020 THEN [valid |-> TRUE, time |-> 1577836800]
    ELSE IF s = Y2023_10 THEN [valid |-> TRUE, time |-> 1696118400]
    ELSE [valid |-> FALSE, time |-> 0]

calculateTTLFlat(t, startPeriod) == SHORT_TTL

calculateTTL(t, startPeriod) ==
    IF startPeriod = Undefined \/ startPeriod = EmptyStr THEN SHORT_TTL
    ELSE LET period == ParseDate(startPeriod)
             threeMonthsAgo == t - THREE_MONTHS
         IN  IF period.valid /\ period.time > threeMonthsAgo
             THEN SHORT_TTL
             ELSE LONG_TTL

isValidInclusive(t, cachedAt, ttl) == t - cachedAt <= ttl

isValid(t, cachedAt, ttl) == t - cachedAt < ttl

(***************************************************************************)
(* oecd_cache_stats.response_time_ms is INTEGER: a value above INT4_MAX is *)
(* rejected by the insert.  The argument is in seconds, the column in      *)
(* milliseconds.                                                           *)
(***************************************************************************)
MsOutOfInt4(seconds) == seconds > INT4_MAX \div 1000

(***************************************************************************)
(* The durable table oecd_cached_observations, a set of rows.              *)
(***************************************************************************)
RowsOf(tbl, k) == {r \in tbl : r.cache_key = k}

InsertRow(tbl, row) == tbl \cup {row}

(* ON CONFLICT DO NOTHING: a row whose key is taken is dropped.            *)
InsertIfAbsent(tbl, row) ==
    IF RowsOf(tbl, row.cache_key) # {} THEN tbl ELSE tbl \cup {row}

Upsert(tbl, row) == {r \in tbl : r.cache_key # row.cache_key} \cup {row}

DeleteByKey(tbl, k) == {r \in tbl : r.cache_key # k}

DeleteByDataflow(tbl, d) == {r \in tbl : r.dataflow_id # d}

(* .select('*').eq('cache_key', k).single(): an error unless one row.      *)
SelectSingle(tbl, k, out) ==
    IF out = "ok" /\ Cardinality(RowsOf(tbl, k)) = 1
    THEN [error |-> FALSE, data |-> CHOOSE r \in RowsOf(tbl, k) : TRUE]
    ELSE [error |-> TRUE, data |-> NoRow]

(***************************************************************************)
(* The memory tier, a function from the keys it holds.                     *)
(***************************************************************************)
MapSet(m, k, v) == [x \in (DOMAIN m) \cup {k} |-> IF x = k THEN v ELSE m[x]]

MapDelete(m, ks) == [x \in (DOMAIN m) \ ks |-> m[x]]

(***************************************************************************)
(* State.                                                                  *)
(*   clock        the instant reached; now is Date.now(), in seconds       *)
(*   memoryCache  this.memoryCache                                         *)
(*   table        oecd_cached_observations                                 *)
(*   stats        oecd_cache_stats, a bag of rows                          *)
(*   pc, call     each handler's position and the locals of its call       *)
(*   ops          the requests started so far                              *)
(*   last         history: the call that returned most recently            *)
(*   lastStore, invalidated   history: the last completed store per key,   *)
(*                the keys covered by a completed invalidateDataflow       *)
(*   warm         the locals of a run of preCachePopularDataflows          *)
(*   fn           a call of one of the functions that touch no tier: its   *)
(*                arguments and, once applied, its result                  *)
(***************************************************************************)
VARIABLES clock, ops, memoryCache, table, stats, pc, call, last,
          lastStore, invalidated, warm, fn

vars == <<clock, ops, memoryCache, table, stats, pc, call, last,
          lastStore, invalidated, warm, fn>>

now == StartTime + Instants[clock + 1]

NoStore == [set |-> FALSE, clean |-> FALSE, payload |-> NULL, reqAt |-> 0,
            doneAt |-> 0, dbOk |-> FALSE, rival |-> NULL, rivalOk |-> FALSE,
            crossed |-> FALSE]

NoReply == [error |-> FALSE, data |-> NoRow]

IdleCall ==
    [op |-> "none", key |-> NULL, dataflowId |-> NULL,
     startPeriod |-> NULL, payload |-> NULL, startTime |-> 0, reqAt |-> 0,
     valAt |-> 0, reply |-> NoReply, selected |-> FALSE, sel |-> "none",
     tier |-> "none", age |-> 0, respTime |-> 0, appended |-> 0,
     result |-> NULL, raised |-> FALSE, dbres |-> "none",
     ins |-> "none", awaiting |-> "none",
     seen |-> NoStore, wasInval |-> FALSE, rival |-> NULL,
     disturbed |-> FALSE, crossed |-> FALSE]

(* The durable table outlives the process: at construction it is empty or  *)
(* holds a row that an earlier process stored at StartTime.                *)
PriorRow ==
    LET q == Query(<<"A">>, Undefined, Undefined, Undefined, 100)
    IN  [cache_key |-> generateCacheKey(q), dataflow_id |-> q.dataflowId,
         start_period |-> q.startPeriod, data |-> <<"o1">>,
         storage_url |-> NULL,
         cached_at |-> StartTime, accessed_at |-> StartTime]

QueryOf(k) == CHOOSE q \in Queries : generateCacheKey(q) = k

KeysOfDataflow(d) == {k \in Keys : QueryOf(k).dataflowId = d}

Free(p) == pc[p] = "idle"

(* A call on the cache is in flight and can still act.                     *)
Running(p) == pc[p] \notin {"idle", "missed", "hung"}

(* Handlers stand for the requests in flight; a new request takes the      *)
(* lowest free one.                                                        *)
Takes(p) == Free(p) /\ \A h \in Handlers : h < p => ~Free(h)

Concerns(h, ks) ==
    \/ call[h].key \in ks
    \/ /\ call[h].op = "invalidateDataflow"
       /\ KeysOfDataflow(call[h].dataflowId) \cap ks # {}

(* History bookkeeping when handler p starts call c concerning keys ks:    *)
(* it and every running call on those keys are marked as overlapped,       *)
(* except that two lookups do not disturb each other; an overlap with an   *)
(* invalidation is marked as such; two stores of one key note each         *)
(* other's payload.                                                        *)
Invalidations == {"invalidateCache", "invalidateDataflow"}

Clash(c, h, ks) ==
    /\ Running(h)
    /\ Concerns(h, ks)
    /\ c.op # "get" \/ call[h].op # "get"

Rival(c, h) ==
    /\ Running(h)
    /\ c.op = "store"
    /\ call[h].op = "store"
    /\ call[h].key = c.key

Begin(p, c, ks) ==
    [h \in Handlers |->
        IF h = p
        THEN [c EXCEPT
                 !.disturbed = \E o \in Handlers \ {p} : Clash(c, o, ks),
                 !.crossed = \E o \in Handlers \ {p} :
                                Clash(c, o, ks) /\ call[o].op \in Invalidations,
                 !.rival = IF \E o \in Handlers \ {p} : Rival(c, o)
                           THEN call[CHOOSE o \in Handlers \ {p} :
                                        Rival(c, o)].payload
                           ELSE NULL]
        ELSE IF Clash(c, h, ks)
             THEN [call[h] EXCEPT !.disturbed = TRUE,
                                  !.crossed = @ \/ c.op \in Invalidations,
                                  !.rival = IF Rival(c, h) THEN c.payload
                                            ELSE @]
             ELSE call[h]]

(* History bookkeeping when a store of key k takes effect.                 *)
Stored(cs, k) ==
    [h \in Handlers |->
        IF cs[h].op = "get" /\ cs[h].key = k
        THEN [cs[h] EXCEPT !.wasInval = FALSE] ELSE cs[h]]

(* preCachePopularDataflows is not running.                                *)
NoWarm ==
    [list |-> <<>>, i |-> 0, phase |-> "off", fetched |-> {},
     failed |-> {}, calls |-> <<>>, t |-> 0, raised |-> FALSE,
     ids |-> <<>>, ends |-> <<>>, skipped |-> {}]

(* The keys of the lists warmed, lines 336-339.                            *)
WarmDataflows == {<<"A">>, <<"B">>}

WarmQuery(d) == Query(d, Undefined, Undefined, Undefined, 100)

WarmKeys == {generateCacheKey(WarmQuery(d)) : d \in WarmDataflows}

InitCache ==
    /\ clock = 0
    /\ ops = 0
    /\ memoryCache = [k \in {} |-> NULL]
    /\ table \in {{}, {PriorRow}}
    /\ stats = EmptyBag
    /\ pc = [h \in Handlers |-> "idle"]
    /\ call = [h \in Handlers |-> IdleCall]
    /\ last = IdleCall
    /\ lastStore = [k \in Keys \cup WarmKeys |-> NoStore]
    /\ invalidated = {}

(* No function call is under way.                                          *)
NoCall == [op |-> "none", done |-> FALSE]

Init ==
    /\ InitCache
    /\ warm = NoWarm
    /\ fn = NoCall


(***************************************************************************)
(* getCachedObservations                                                   *)
(***************************************************************************)
memoryHitAnyAge(k, t) == k \in DOMAIN memoryCache

memoryHit(k, t) ==
    /\ k \in DOMAIN memoryCache
    /\ isValid(t, memoryCache[k].cachedAt, MEMORY_TTL)

(* Lines 66-80: the memory tier, then the select is issued.                *)
GetStart(p, q) ==
    LET k == generateCacheKey(q)
        base == [IdleCall EXCEPT !.op = "get", !.key = k,
                    !.dataflowId = q.dataflowId,
                    !.startPeriod = q.startPeriod, !.valAt = now,
                    !.seen = lastStore[k], !.wasInval = (k \in invalidated)]
        c == IF memoryHit(k, now)
             THEN [base EXCEPT !.tier = "memory", !.respTime = now,
                      !.age = now - memoryCache[k].cachedAt,
                      !.result = memoryCache[k].data]
             ELSE [base EXCEPT !.selected = TRUE, !.startTime = now]
    IN  /\ Takes(p)
        /\ ops < MaxOps
        /\ ops' = ops + 1
        /\ call' = Begin(p, c, {k})
        /\ pc' = [pc EXCEPT ![p] = IF memoryHit(k, now) THEN "record"
                                   ELSE "select"]
        /\ UNCHANGED <<clock, memoryCache, table, stats, last, lastStore,
                       invalidated>>

(* The durable tier answers the select (or never does).                    *)
SelectExec(p, out) ==
    /\ pc[p] = "select"
    /\ IF out = "hang"
       THEN /\ pc' = [pc EXCEPT ![p] = "hung"]
            /\ call' = [call EXCEPT ![p].awaiting = "select"]
       ELSE /\ pc' = [pc EXCEPT ![p] = "selected"]
            /\ call' = [call EXCEPT ![p] =
                          [@ EXCEPT !.reply =
                                       SelectSingle(table, call[p].key, out),
                                    !.sel = out]]
    /\ UNCHANGED <<clock, ops, memoryCache, table, stats, last, lastStore,
                   invalidated>>

SelectNeverFailed(reply) == FALSE

(* Line 82.                                                                *)
SelectFailed(reply) == reply.error \/ reply.data = NoRow

(* A miss that hands the row it rejected to the caller all the same.       *)
MissServingStale(c) ==
    [c EXCEPT !.tier = "api-miss", !.respTime = now - c.startTime,
              !.startTime = 0, !.reply = NoReply, !.valAt = now,
              !.result = c.reply.data.data]

Miss(c) ==
    [c EXCEPT !.tier = "api-miss", !.respTime = now - c.startTime,
              !.startTime = 0, !.reply = NoReply, !.valAt = now,
              !.result = NULL]

(* Lines 82-99: the handler resumes with the select's reply.  Reading a    *)
(* field of a null row throws, which ends the call.                        *)
SelectResume(p) ==
    LET c == call[p]
        row == c.reply.data
    IN  /\ pc[p] = "selected"
        /\ IF SelectFailed(c.reply)
           THEN /\ call' = [call EXCEPT ![p] = Miss(c)]
                /\ pc' = [pc EXCEPT ![p] = "record"]
                /\ UNCHANGED <<memoryCache, last>>
           ELSE IF row = NoRow
           THEN /\ call' = [call EXCEPT ![p] = IdleCall]
                /\ last' = [c EXCEPT !.raised = TRUE, !.reply = NoReply,
                                     !.startTime = 0]
                /\ pc' = [pc EXCEPT ![p] = "idle"]
                /\ UNCHANGED memoryCache
           ELSE IF ~isValid(now, row.cached_at,
                            calculateTTL(now, row.start_period))
           THEN /\ call' = [call EXCEPT ![p] = Miss(c)]
                /\ pc' = [pc EXCEPT ![p] = "record"]
                /\ UNCHANGED <<memoryCache, last>>
           ELSE /\ memoryCache' = MapSet(memoryCache, c.key,
                        [data |-> row.data, cachedAt |-> row.cached_at])
                /\ call' = [call EXCEPT ![p] =
                      [c EXCEPT !.tier = "supabase-db",
                                !.respTime = now - c.startTime,
                                !.startTime = 0, !.reply = NoReply,
                                !.age = now - row.cached_at,
                                !.valAt = now, !.result = row.data]]
                /\ pc' = [pc EXCEPT ![p] = "record"]
                /\ UNCHANGED last
        /\ UNCHANGED <<clock, ops, table, stats, lastStore, invalidated>>

(***************************************************************************)
(* recordHit: the insert into oecd_cache_stats, awaited by the lookup.     *)
(* Of the row, the columns kept are those an operation reads back.         *)
(***************************************************************************)
StatsRow(c) ==
    [cache_key |-> c.key, dataflow_id |-> split0(c.key),
     hit_type |-> c.tier]

InsertAccepted(c, out) == out = "ok" /\ ~MsOutOfInt4(c.respTime)

(* What the caller of a lookup that returned null does next: it fetches.   *)
Fetching(c) ==
    [IdleCall EXCEPT !.op = "fetch", !.key = c.key,
                     !.dataflowId = c.dataflowId,
                     !.startPeriod = c.startPeriod]

(* The lookup returns c.result to its caller.                              *)
GetReturns(p, c) ==
    /\ last' = c
    /\ IF c.result = NULL
       THEN /\ pc' = [pc EXCEPT ![p] = "missed"]
            /\ call' = [call EXCEPT ![p] = Fetching(c)]
       ELSE /\ pc' = [pc EXCEPT ![p] = "idle"]
            /\ call' = [call EXCEPT ![p] = IdleCall]

(* Lines 70-71, 83-84, 90-91, 99-100: the insert settles and the lookup    *)
(* goes on to return, or to updateAccessStats after a durable hit.         *)
recordHit(p, out) ==
    LET c == call[p]
        d == [c EXCEPT !.appended = BagCardinality(stats')
                                    - BagCardinality(stats),
                       !.ins = out, !.respTime = 0]
    IN  /\ pc[p] = "record"
        /\ IF out = "hang"
           THEN /\ pc' = [pc EXCEPT ![p] = "hung"]
                /\ call' = [call EXCEPT ![p].awaiting = "insert"]
                /\ UNCHANGED <<stats, last>>
           ELSE /\ stats' = IF InsertAccepted(c, out)
                            THEN stats (+) SetToBag({StatsRow(c)})
                            ELSE stats
                /\ IF c.tier = "supabase-db"
                   THEN /\ call' = [call EXCEPT ![p] = d]
                        /\ pc' = [pc EXCEPT ![p] = "update"]
                        /\ UNCHANGED last
                   ELSE GetReturns(p, d)
        /\ UNCHANGED <<clock, ops, memoryCache, table, lastStore,
                       invalidated>>

(* An update that refreshes cached_at along with accessed_at.              *)
updateAccessStatsRefreshing(p, out) ==
    LET c == call[p]
    IN  /\ pc[p] = "update"
        /\ IF out = "hang"
           THEN /\ pc' = [pc EXCEPT ![p] = "hung"]
                /\ call' = [call EXCEPT ![p].awaiting = "update"]
                /\ UNCHANGED <<table, last>>
           ELSE /\ table' = IF out = "ok"
                            THEN {IF r.cache_key = c.key
                                  THEN [r EXCEPT !.accessed_at = now,
                                                 !.cached_at = now]
                                  ELSE r : r \in table}
                            ELSE table
                /\ GetReturns(p, [c EXCEPT !.dbres = out])
        /\ UNCHANGED <<clock, ops, memoryCache, stats, lastStore,
                       invalidated>>

(* Lines 225-233: the update of accessed_at settles; the lookup returns.   *)
updateAccessStats(p, out) ==
    LET c == call[p]
    IN  /\ pc[p] = "update"
        /\ IF out = "hang"
           THEN /\ pc' = [pc EXCEPT ![p] = "hung"]
                /\ call' = [call EXCEPT ![p].awaiting = "update"]
                /\ UNCHANGED <<table, last>>
           ELSE /\ table' = IF out = "ok"
                            THEN {IF r.cache_key = c.key
                                  THEN [r EXCEPT !.accessed_at = now]
                                  ELSE r : r \in table}
                            ELSE table
                /\ GetReturns(p, [c EXCEPT !.dbres = out])
        /\ UNCHANGED <<clock, ops, memoryCache, stats, lastStore,
                       invalidated>>

(***************************************************************************)
(* The caller after a miss (OECDClient.queryData, preCachePopularDataflows)*)
(* fetches upstream and stores what it got, or the fetch fails.            *)
(***************************************************************************)
FetchFails(p) ==
    /\ pc[p] = "missed"
    /\ pc' = [pc EXCEPT ![p] = "idle"]
    /\ call' = [call EXCEPT ![p] = IdleCall]
    /\ UNCHANGED <<clock, ops, memoryCache, table, stats, last, lastStore,
                   invalidated>>

(***************************************************************************)
(* storeCachedObservations                                                 *)
(***************************************************************************)
(* Lines 118-144: the upsert is issued; cached_at is taken now.            *)
StoreStart(p, obs) ==
    LET k == call[p].key
        c == [IdleCall EXCEPT !.op = "store", !.key = k,
                 !.dataflowId = call[p].dataflowId,
                 !.startPeriod = call[p].startPeriod, !.payload = obs,
                 !.reqAt = now]
    IN  /\ pc[p] = "missed"
        /\ call' = Stored(Begin(p, c, {k}), k)
        /\ pc' = [pc EXCEPT ![p] = "upsert"]
        /\ lastStore' = [lastStore EXCEPT ![k] = NoStore]
        /\ invalidated' = invalidated \ {k}
        /\ UNCHANGED <<clock, ops, memoryCache, table, stats, last>>

(* A row that keeps the payload inline and points to the bucket as well    *)
(* once the payload has more than one observation.                         *)
StoreRowWithPointer(c) ==
    [cache_key |-> c.key, dataflow_id |-> c.dataflowId,
     start_period |-> c.startPeriod, data |-> c.payload,
     storage_url |-> IF Len(c.payload) > 1 THEN STORAGE_BUCKET ELSE NULL,
     cached_at |-> c.reqAt, accessed_at |-> c.reqAt]

(* Lines 129-142: the row upserted, of any size, holds the observations    *)
(* inline and no storage_url.                                              *)
StoreRow(c) ==
    [cache_key |-> c.key, dataflow_id |-> c.dataflowId,
     start_period |-> c.startPeriod, data |-> c.payload,
     storage_url |-> NULL,
     cached_at |-> c.reqAt, accessed_at |-> c.reqAt]

(* CONSTRAINT data_or_storage of oecd_cached_observations.                 *)
data_or_storage(r) ==
    \/ r.data # NULL /\ r.storage_url = NULL
    \/ r.data = NULL /\ r.storage_url # NULL

(* What the table answers to the upsert of row r when it is reachable.     *)
UpsertAnswer(r, out) ==
    IF out = "ok" /\ ~data_or_storage(r) THEN "error" ELSE out

(* The durable tier applies the upsert, rejects it, or never answers.      *)
UpsertExec(p, out) ==
    LET c == call[p]
    IN  /\ pc[p] = "upsert"
        /\ IF out = "hang"
           THEN /\ pc' = [pc EXCEPT ![p] = "hung"]
                /\ call' = [call EXCEPT ![p].awaiting = "upsert"]
                /\ UNCHANGED <<table, invalidated>>
           ELSE /\ table' = IF UpsertAnswer(StoreRow(c), out) = "ok"
                            THEN Upsert(table, StoreRow(c))
                            ELSE table
                /\ call' = Stored([call EXCEPT ![p] =
                      [c EXCEPT !.dbres = UpsertAnswer(StoreRow(c), out)]],
                      c.key)
                /\ invalidated' = invalidated \ {c.key}
                /\ pc' = [pc EXCEPT ![p] = "upserted"]
        /\ UNCHANGED <<clock, ops, memoryCache, stats, last, lastStore>>

(* Lines 146-150: the handler resumes, whatever the upsert answered,       *)
(* writes the memory tier and returns.                                     *)
StoreResume(p) ==
    LET c == call[p]
    IN  /\ pc[p] = "upserted"
        /\ memoryCache' = MapSet(memoryCache, c.key,
                                 [data |-> c.payload, cachedAt |-> now])
        /\ pc' = [pc EXCEPT ![p] = "idle"]
        /\ call' = Stored([call EXCEPT ![p] = IdleCall], c.key)
        /\ last' = c
        /\ lastStore' = [lastStore EXCEPT ![c.key] =
              [set |-> TRUE, clean |-> ~c.disturbed,
               payload |-> c.payload, reqAt |-> c.reqAt, doneAt |-> now,
               dbOk |-> (c.dbres = "ok"), rival |-> c.rival,
               rivalOk |-> IF \E o \in Handlers \ {p} : Rival(c, o)
                           THEN \E o \in Handlers \ {p} :
                                   Rival(c, o) /\ call[o].dbres = "ok"
                           ELSE lastStore[c.key].set /\ lastStore[c.key].dbOk,
               crossed |-> c.crossed \/ lastStore[c.key].crossed]]
        /\ invalidated' = invalidated \ {c.key}
        /\ UNCHANGED <<clock, ops, table, stats>>

(***************************************************************************)
(* invalidateCache, invalidateDataflow                                     *)
(***************************************************************************)
(* Lines 296-304: the memory entry goes at once; the delete is issued.     *)
InvalidateStart(p, k) ==
    LET c == [IdleCall EXCEPT !.op = "invalidateCache", !.key = k,
                 !.dataflowId = QueryOf(k).dataflowId]
    IN  /\ Takes(p)
        /\ ops < MaxOps
        /\ ops' = ops + 1
        /\ memoryCache' = MapDelete(memoryCache, {k})
        /\ call' = Begin(p, c, {k})
        /\ pc' = [pc EXCEPT ![p] = "delete"]
        /\ lastStore' = [lastStore EXCEPT ![k] = NoStore]
        /\ UNCHANGED <<clock, table, stats, last, invalidated>>

(* Lines 310-322.                                                          *)
InvalidateDataflowStart(p, d) ==
    LET c == [IdleCall EXCEPT !.op = "invalidateDataflow",
                 !.dataflowId = d]
        gone == {k \in DOMAIN memoryCache : startsWith(k, d \o Colon)}
    IN  /\ Takes(p)
        /\ ops < MaxOps
        /\ ops' = ops + 1
        /\ memoryCache' = MapDelete(memoryCache, gone)
        /\ call' = Begin(p, c, KeysOfDataflow(d))
        /\ pc' = [pc EXCEPT ![p] = "delete"]
        /\ lastStore' = [k \in DOMAIN lastStore |->
                            IF k \in KeysOfDataflow(d)
                            THEN NoStore ELSE lastStore[k]]
        /\ UNCHANGED <<clock, table, stats, last, invalidated>>

(* The durable tier applies the delete, rejects it, or never answers.      *)
DeleteExec(p, out) ==
    LET c == call[p]
    IN  /\ pc[p] = "delete"
        /\ IF out = "hang"
           THEN /\ pc' = [pc EXCEPT ![p] = "hung"]
                /\ call' = [call EXCEPT ![p].awaiting = "delete"]
                /\ UNCHANGED table
           ELSE /\ table' = IF out # "ok" THEN table
                            ELSE IF c.op = "invalidateCache"
                                 THEN DeleteByKey(table, c.key)
                                 ELSE DeleteByDataflow(table, c.dataflowId)
                /\ call' = [call EXCEPT ![p] = [c EXCEPT !.dbres = out]]
                /\ pc' = [pc EXCEPT ![p] = "deleted"]
        /\ UNCHANGED <<clock, ops, memoryCache, stats, last, lastStore,
                       invalidated>>

(* The delete's error, if any, is dropped: the call returns.               *)
InvalidateResume(p) ==
    LET c == call[p]
    IN  /\ pc[p] = "deleted"
        /\ pc' = [pc EXCEPT ![p] = "idle"]
        /\ call' = [call EXCEPT ![p] = IdleCall]
        /\ last' = c
        /\ invalidated' = IF c.op = "invalidateDataflow"
                          THEN invalidated \cup KeysOfDataflow(c.dataflowId)
                          ELSE invalidated
        /\ UNCHANGED <<clock, ops, memoryCache, table, stats, lastStore>>

(***************************************************************************)
(* cleanMemoryCache (the 60 s interval timer) and the clock.               *)
(***************************************************************************)
(* A sweep that empties the memory tier.                                   *)
cleanMemoryCacheAll ==
    /\ memoryCache' = MapDelete(memoryCache, DOMAIN memoryCache)
    /\ UNCHANGED <<clock, ops, table, stats, pc, call, last, lastStore,
                   invalidated>>

cleanMemoryCache ==
    /\ memoryCache' = MapDelete(memoryCache,
          {k \in DOMAIN memoryCache :
              now - memoryCache[k].cachedAt > SWEEP_TTL})
    /\ UNCHANGED <<clock, ops, table, stats, pc, call, last, lastStore,
                   invalidated>>

(* A durable-tier call that answers does so within the second: the clock   *)
(* moves on only while no call is waiting for an answer.                   *)
Tick(i) ==
    /\ \A h \in Handlers : ~Running(h)
    /\ clock < i
    /\ i <= MaxTicks
    /\ i < Len(Instants)
    /\ clock' = i
    /\ UNCHANGED <<ops, memoryCache, table, stats, pc, call, last,
                   lastStore, invalidated>>

(* The steps by which handler p's call on the cache goes on when the       *)
(* durable tier answers.                                                   *)
HandlerStep(p) ==
    /\ UNCHANGED <<warm, fn>>
    /\ \/ SelectResume(p)
       \/ StoreResume(p)
       \/ InvalidateResume(p)
       \/ \E out \in Answers :
             \/ SelectExec(p, out)
             \/ recordHit(p, out)
             \/ updateAccessStats(p, out)
             \/ UpsertExec(p, out)
             \/ DeleteExec(p, out)

Next ==
    \/ \E p \in Handlers, q \in Queries :
          /\ GetStart(p, q)
          /\ UNCHANGED <<warm, fn>>
    \/ \E p \in Handlers, out \in Outcomes :
          /\ SelectExec(p, out)
          /\ UNCHANGED <<warm, fn>>
    \/ \E p \in Handlers :
          /\ SelectResume(p)
          /\ UNCHANGED <<warm, fn>>
    \/ \E p \in Handlers, out \in Outcomes :
          /\ recordHit(p, out)
          /\ UNCHANGED <<warm, fn>>
    \/ \E p \in Handlers, out \in Outcomes :
          /\ updateAccessStats(p, out)
          /\ UNCHANGED <<warm, fn>>
    \/ \E p \in Handlers :
          /\ FetchFails(p)
          /\ UNCHANGED <<warm, fn>>
    \/ \E p \in Handlers, obs \in Payloads :
          /\ StoreStart(p, obs)
          /\ UNCHANGED <<warm, fn>>
    \/ \E p \in Handlers, out \in Outcomes :
          /\ UpsertExec(p, out)
          /\ UNCHANGED <<warm, fn>>
    \/ \E p \in Handlers :
          /\ StoreResume(p)
          /\ UNCHANGED <<warm, fn>>
    \/ \E p \in Handlers, k \in Keys :
          /\ InvalidateStart(p, k)
          /\ UNCHANGED <<warm, fn>>
    \/ \E p \in Handlers, d \in Dataflows :
          /\ InvalidateDataflowStart(p, d)
          /\ UNCHANGED <<warm, fn>>
    \/ \E p \in Handlers, out \in Outcomes :
          /\ DeleteExec(p, out)
          /\ UNCHANGED <<warm, fn>>
    \/ \E p \in Handlers :
          /\ InvalidateResume(p)
          /\ UNCHANGED <<warm, fn>>
    \/ cleanMemoryCache /\ UNCHANGED <<warm, fn>>
    \/ \E i \in 1..MaxTicks :
          /\ Tick(i)
          /\ UNCHANGED <<warm, fn>>

(* The same program with a durable tier that always answers.               *)
NextAnswering ==
    \/ \E p \in Handlers, q \in Queries :
          /\ GetStart(p, q)
          /\ UNCHANGED <<warm, fn>>
    \/ \E p \in Handlers, out \in Answers :
          /\ SelectExec(p, out)
          /\ UNCHANGED <<warm, fn>>
    \/ \E p \in Handlers :
          /\ SelectResume(p)
          /\ UNCHANGED <<warm, fn>>
    \/ \E p \in Handlers, out \in Answers :
          /\ recordHit(p, out)
          /\ UNCHANGED <<warm, fn>>
    \/ \E p \in Handlers, out \in Answers :
          /\ updateAccessStats(p, out)
          /\ UNCHANGED <<warm, fn>>
    \/ \E p \in Handlers :
          /\ FetchFails(p)
          /\ UNCHANGED <<warm, fn>>
    \/ \E p \in Handlers, obs \in Payloads :
          /\ StoreStart(p, obs)
          /\ UNCHANGED <<warm, fn>>
    \/ \E p \in Handlers, out \in Answers :
          /\ UpsertExec(p, out)
          /\ UNCHANGED <<warm, fn>>
    \/ \E p \in Handlers :
          /\ StoreResume(p)
          /\ UNCHANGED <<warm, fn>>
    \/ \E p \in Handlers, k \in Keys :
          /\ InvalidateStart(p, k)
          /\ UNCHANGED <<warm, fn>>
    \/ \E p \in Handlers, d \in Dataflows :
          /\ InvalidateDataflowStart(p, d)
          /\ UNCHANGED <<warm, fn>>
    \/ \E p \in Handlers, out \in Answers :
          /\ DeleteExec(p, out)
          /\ UNCHANGED <<warm, fn>>
    \/ \E p \in Handlers :
          /\ InvalidateResume(p)
          /\ UNCHANGED <<warm, fn>>
    \/ cleanMemoryCache /\ UNCHANGED <<warm, fn>>
    \/ \E i \in 1..MaxTicks :
          /\ Tick(i)
          /\ UNCHANGED <<warm, fn>>

Spec == Init /\ [][NextAnswering]_vars

SpecHang == Init /\ [][Next]_vars

(* The event loop resumes a handler whenever its call has been answered.   *)
SpecHangFair == SpecHang /\ \A p \in Handlers : WF_vars(HandlerStep(p))

(***************************************************************************)
(* preCachePopularDataflows, run by handler WarmHandler on a list of       *)
(* dataset ids with nothing else calling the cache.  warm.t is the time    *)
(* the run has taken, in seconds; a run over these lists is shorter than   *)
(* the memory TTL.  warm.calls holds the times of the calls of queryFn,    *)
(* warm.fetched and warm.failed what became of them.                       *)
(***************************************************************************)
WarmHandler == 1

WarmLists ==
    UNION {[1..n -> WarmDataflows] : n \in 1..MaxOps}

(* How long queryFn takes to settle, in whole seconds.                     *)
FetchDurations == {0, 1}

cacheVars == <<clock, ops, memoryCache, table, stats, pc, call, last,
               lastStore, invalidated>>

InitWarm ==
    /\ InitCache
    /\ warm \in {[NoWarm EXCEPT !.list = l, !.i = 1, !.phase = "next"] :
                   l \in WarmLists}
    /\ fn = NoCall

(* Lines 334-342: the next dataset id; its key; the lookup.                *)
WarmCheck ==
    /\ warm.phase = "next"
    /\ warm.i <= Len(warm.list)
    /\ GetStart(WarmHandler, WarmQuery(warm.list[warm.i]))
    /\ warm' = [warm EXCEPT !.phase = "check"]
    /\ UNCHANGED fn

(* Lines 343-346: already cached, continue.                                *)
WarmSkip ==
    /\ warm.phase = "check"
    /\ pc[WarmHandler] = "idle"
    /\ warm' = [warm EXCEPT !.i = @ + 1, !.phase = "next",
                            !.skipped = @ \cup {warm.i}]
    /\ UNCHANGED cacheVars
    /\ UNCHANGED fn

(* A run that gives up at the first failure.                               *)
AbortOnFetchError(w) == [w EXCEPT !.phase = "done", !.raised = TRUE]

(* A loop that tries the same id again after a failure.                    *)
RetryOnFetchError(w) == [w EXCEPT !.phase = "next"]

(* Lines 359-361: the catch logs and the loop goes on to the next id.      *)
OnFetchError(w) == [w EXCEPT !.i = @ + 1, !.phase = "next"]

(* A loop that goes on the moment queryFn is called.                       *)
FetchNotAwaited(t, d) == t

(* await queryFn(...): the loop goes on when the call, made at t, has      *)
(* settled d seconds later.                                                *)
FetchSettles(t, d) == t + d

(* Line 349: queryFn is called and rejects after d seconds.                *)
WarmFetchFails(d) ==
    /\ warm.phase = "check"
    /\ pc[WarmHandler] = "missed"
    /\ FetchFails(WarmHandler)
    /\ warm' = OnFetchError([warm EXCEPT !.calls = Append(@, warm.t),
                                         !.ids = Append(@, warm.i),
                                         !.ends = Append(@, warm.t + d),
                                         !.failed = @ \cup {warm.i},
                                         !.t = FetchSettles(@, d)])
    /\ UNCHANGED fn

(* Lines 349-353: queryFn is called, resolves with obs after d seconds,    *)
(* and the store begins.                                                   *)
WarmFetched(obs, d) ==
    /\ warm.phase = "check"
    /\ pc[WarmHandler] = "missed"
    /\ StoreStart(WarmHandler, obs)
    /\ warm' = [warm EXCEPT
                   !.calls = Append(@, warm.t),
                   !.ids = Append(@, warm.i),
                   !.ends = Append(@, warm.t + d),
                   !.fetched = @ \cup {[j |-> warm.i,
                                        id |-> warm.list[warm.i],
                                        obs |-> obs]},
                   !.t = FetchSettles(@, d),
                   !.phase = "store"]
    /\ UNCHANGED fn

(* Lines 355-358: the store has returned; the rate-limiting delay.         *)
WarmSleep ==
    /\ warm.phase = "store"
    /\ pc[WarmHandler] = "idle"
    /\ warm' = [warm EXCEPT !.t = @ + WARM_DELAY, !.i = @ + 1,
                            !.phase = "next"]
    /\ UNCHANGED cacheVars
    /\ UNCHANGED fn

(* Line 364: the list is exhausted.                                        *)
WarmDone ==
    /\ warm.phase = "next"
    /\ warm.i > Len(warm.list)
    /\ warm' = [warm EXCEPT !.phase = "done"]
    /\ UNCHANGED cacheVars
    /\ UNCHANGED fn

NextWarm ==
    \/ WarmCheck
    \/ WarmSkip
    \/ \E d \in FetchDurations : WarmFetchFails(d)
    \/ \E obs \in Payloads, d \in FetchDurations : WarmFetched(obs, d)
    \/ WarmSleep
    \/ WarmDone
    \/ \E out \in Answers :
          /\ SelectExec(WarmHandler, out)
          /\ UNCHANGED <<warm, fn>>
    \/ SelectResume(WarmHandler) /\ UNCHANGED <<warm, fn>>
    \/ \E out \in Answers :
          /\ recordHit(WarmHandler, out)
          /\ UNCHANGED <<warm, fn>>
    \/ \E out \in Answers :
          /\ updateAccessStats(WarmHandler, out)
          /\ UNCHANGED <<warm, fn>>
    \/ \E out \in Answers :
          /\ UpsertExec(WarmHandler, out)
          /\ UNCHANGED <<warm, fn>>
    \/ StoreResume(WarmHandler) /\ UNCHANGED <<warm, fn>>

SpecWarm == InitWarm /\ [][NextWarm]_vars

(***************************************************************************)
(* The functions that touch no tier, each applied to arguments drawn at    *)
(* the start; the cache stays as constructed.                              *)
(***************************************************************************)
InitQuiet ==
    /\ InitCache
    /\ table = {}
    /\ warm = NoWarm

Quiet == UNCHANGED <<cacheVars, warm>>

(* calculateTTL: the moments of the call, ten days apart, and the start    *)
(* periods: absent, empty, a year, a month, a quarter (no date to         *)
(* new Date).                                                              *)
TTLTimes == {StartTime + n * 10 * SHORT_TTL : n \in 0..MaxSpan}

StartPeriods == {Undefined, EmptyStr, Y2020, Y2023_10, Q2023_1}

InitTTL ==
    /\ InitQuiet
    /\ fn \in {[op |-> "calculateTTL", done |-> FALSE, t |-> t,
                 startPeriod |-> sp, res |-> 0] :
                    t \in TTLTimes, sp \in StartPeriods}

ApplyTTL ==
    /\ fn.op = "calculateTTL"
    /\ ~fn.done
    /\ fn' = [fn EXCEPT !.done = TRUE,
                        !.res = calculateTTL(fn.t, fn.startPeriod)]
    /\ Quiet

SpecTTL == InitTTL /\ [][ApplyTTL]_vars

(***************************************************************************)
(* Properties.  A lookup that has returned is described by last.           *)
(***************************************************************************)
Returned(op) == last.op = op /\ ~last.raised

(* The lookup that returned came after a completed store of its key, with  *)
(* no call on that key in flight during the store, between the two or      *)
(* during the lookup.                                                      *)
GetAfterStore ==
    /\ last.op = "get"
    /\ last.seen.set
    /\ last.seen.clean
    /\ ~last.disturbed

StoredTTL == calculateTTL(last.valAt, last.startPeriod)

TTLEnforced ==
    (last.op = "get" /\ last.result # NULL)
        => last.age < calculateTTL(last.valAt, last.startPeriod)

(* A durable hit on an entry that has outlived the memory TTL.             *)
AgedDurableHit ==
    /\ Returned("get")
    /\ last.tier = "supabase-db"
    /\ last.result # NULL
    /\ last.age >= MEMORY_TTL

(* C3: once invalidateDataflow(D) has completed, a lookup of a key of D    *)
(* that starts before the key is stored again returns null.                *)
InvalidatedStaysAbsent ==
    (last.op = "get" /\ last.wasInval) => last.result = NULL

(* C4: when invalidateCache(k), overlapped by no other call on k, has its  *)
(* delete answered and is about to return, k is in neither tier.           *)
InvalidateRemoves ==
    \A p \in Handlers :
        ( /\ pc[p] = "deleted"
          /\ call[p].op = "invalidateCache"
          /\ ~call[p].disturbed )
            => /\ call[p].key \notin DOMAIN memoryCache
               /\ RowsOf(table, call[p].key) = {}

(* C5: a lookup whose select came back with an error returns null, as a    *)
(* miss, and does not raise.                                               *)
SelectErrorIsMiss ==
    (last.op = "get" /\ last.sel = "error")
        => /\ last.result = NULL
           /\ ~last.raised
           /\ last.tier = "api-miss"

(* Such a lookup has returned while the key's row sits in the table.       *)
SelectErrorOnStoredKey ==
    /\ Returned("get")
    /\ last.sel = "error"
    /\ \E r \in table : r.cache_key = last.key

(* C6: no lookup is held up by a stats insert that never completes.        *)
LookupNeverWaitsOnInsert ==
    \A p \in Handlers :
        ~(pc[p] = "hung" /\ call[p].op = "get" /\ call[p].awaiting = "insert")

(* C7: every lookup eventually returns, even when the durable tier never   *)
(* answers.                                                                *)
LookupCompletes ==
    \A p \in Handlers : (call[p].op = "get") ~> (call[p].op # "get")

(* C8, in the case most favourable to it, the stats table answering the    *)
(* insert: every lookup that returned has appended exactly one event,      *)
(* whose hit_type is the tier that satisfied it.                           *)
OneEventPerLookup ==
    (Returned("get") /\ last.ins = "ok") => last.appended = 1

(* C9: a lookup within the memory TTL of a store of its key returns the    *)
(* stored records without a select and appends an event of type 'memory'   *)
(* (the stats table answering the insert).                                 *)
MemoryHitAfterStore ==
    ( /\ GetAfterStore
      /\ last.valAt - last.seen.doneAt < MEMORY_TTL
      /\ last.ins = "ok" )
        => /\ last.result = last.seen.payload
           /\ ~last.selected
           /\ last.tier = "memory"
           /\ last.appended = 1

(* Two stores of key k overlapped, the upsert of one at least was applied, *)
(* both stores have returned, and no invalidation ran across them or       *)
(* started since.                                                          *)
BothStored(k) ==
    /\ lastStore[k].set
    /\ lastStore[k].rival # NULL
    /\ lastStore[k].dbOk \/ lastStore[k].rivalOk
    /\ ~lastStore[k].crossed
    /\ \A h \in Handlers :
          ~(Running(h) /\ call[h].op = "store" /\ call[h].key = k)

(* C10: the table never holds two rows with one cache_key; after two       *)
(* concurrent stores of a key it holds exactly one row for the key, whose  *)
(* payload is that of one of the two stores.                               *)
OneRowPerKey ==
    /\ \A r1, r2 \in table : r1.cache_key = r2.cache_key => r1 = r2
    /\ \A k \in Keys :
          BothStored(k)
            => \E r \in table :
                  /\ RowsOf(table, k) = {r}
                  /\ r.data \in {lastStore[k].payload, lastStore[k].rival}

(* Two handlers missed on a key that had no row and stored different       *)
(* payloads for it, both upserts being applied.                            *)
RacingStoresDone ==
    \E k \in Keys :
        /\ BothStored(k)
        /\ lastStore[k].dbOk
        /\ lastStore[k].rivalOk
        /\ lastStore[k].rival # lastStore[k].payload
        /\ PriorRow \notin table

(* C11: every row a store sends to the table, and every row the table      *)
(* holds, has exactly one of data and storage_url set, whatever the number *)
(* of observations.                                                        *)
DataXorStorage ==
    /\ \A r \in table : (r.data # NULL) # (r.storage_url # NULL)
    /\ \A p \in Handlers :
          pc[p] \in {"upsert", "upserted"}
            => (StoreRow(call[p]).data # NULL)
                 # (StoreRow(call[p]).storage_url # NULL)

(* A store of two observations has been applied.                           *)
LargerPayloadStored ==
    \E p \in Handlers :
        /\ pc[p] = "upserted"
        /\ call[p].dbres = "ok"
        /\ Len(call[p].payload) > 1
        /\ StoreRow(call[p]) \in table

(* C12: when preCachePopularDataflows returns it has not raised, it has    *)
(* gone through the whole list, and every dataset whose fetch succeeded,   *)
(* after a failed one or not, is cached: its records are in the memory     *)
(* tier, and in the table if the upsert was applied.                       *)
WarmTolerant ==
    warm.phase = "done" =>
        /\ ~warm.raised
        /\ warm.i = Len(warm.list) + 1
        /\ \A f \in warm.fetched :
              LET k == generateCacheKey(WarmQuery(f.id))
              IN  /\ k \in DOMAIN memoryCache
                  /\ memoryCache[k].data = f.obs
                  /\ lastStore[k].dbOk
                        => \E r \in table :
                              r.cache_key = k /\ r.data = f.obs

(* A run has returned in which a fetch succeeded after one that failed.    *)
WarmedPastFailure ==
    /\ warm.phase = "done"
    /\ \E f \in warm.fetched : \E j \in warm.failed : j < f.j

(* C13: any two consecutive calls of the fetch function are at least the   *)
(* delay apart, the earlier having failed or not.                          *)
FetchesSpaced ==
    \A j \in 1..(Len(warm.calls) - 1) :
        warm.calls[j + 1] - warm.calls[j] >= WARM_DELAY

TTLReturned == fn.op = "calculateTTL" /\ fn.done

Absent(sp) == sp \in {Undefined, EmptyStr}

PeriodAge == fn.t - ParseDate(fn.startPeriod).time

(* C14: calculateTTL returns 24 h for a start period within the last three *)
(* months, 7 days for one more than three months back, 24 h for none.      *)
TTLByRecency ==
    TTLReturned =>
        /\ Absent(fn.startPeriod) => fn.res = SHORT_TTL
        /\ ( /\ ~Absent(fn.startPeriod)
             /\ ParseDate(fn.startPeriod).valid )
              => /\ (0 <= PeriodAge /\ PeriodAge < THREE_MONTHS)
                      => fn.res = SHORT_TTL
                 /\ PeriodAge > THREE_MONTHS => fn.res = LONG_TTL

(* The month that was recent at StartTime has aged past three months.      *)
RecentMonthGrownOld ==
    /\ TTLReturned
    /\ fn.startPeriod = Y2023_10
    /\ PeriodAge > THREE_MONTHS
    /\ fn.res = LONG_TTL

(* C15: for a start period that is given but is no date, calculateTTL      *)
(* returns the default of 24 h.                                            *)
UnparsableGetsDefault ==
    ( /\ TTLReturned
      /\ ~Absent(fn.startPeriod)
      /\ ~ParseDate(fn.startPeriod).valid )
        => fn.res = SHORT_TTL


\* ------------------------------------------------------------------
\* generateCacheKey as a pure function of the object it is handed.
\* A params object is the sequence of its (name, value) properties in
\* the order the caller wrote them; a property the caller left out is
\* simply not in the sequence.
\* ------------------------------------------------------------------

MaxProps == 3

KeyFields ==
    <<"dataflowId", "filter", "startPeriod", "endPeriod", "lastNObservations">>

OptionalNames == {KeyFields[i] : i \in 2..Len(KeyFields)}

FilterF == <<"F">>

PropValues(name) ==
    CASE name = "dataflowId"        -> {<<"A">>, EmptyStr}
      [] name = "filter"            -> {Undefined, All, FilterF}
      [] name = "startPeriod"       -> {Undefined, Y2020}
      [] name = "endPeriod"         -> {Undefined, Y2020}
      [] name = "lastNObservations" -> {UndefinedNum, 0, 10}

PropPairs ==
    UNION {{<<KeyFields[i], v>> : v \in PropValues(KeyFields[i])} :
           i \in 1..Len(KeyFields)}

FieldIndex(name) == CHOOSE i \in 1..Len(KeyFields) : KeyFields[i] = name

Objects ==
    {o \in UNION {[1..n -> PropPairs] : n \in 1..MaxProps} :
        /\ \A i, j \in 1..Len(o) : i # j => o[i][1] # o[j][1]
        /\ \E i \in 1..Len(o) : o[i][1] = "dataflowId"}

DeclaredOrder(o) ==
    \A i, j \in 1..Len(o) :
        i < j => FieldIndex(o[i][1]) < FieldIndex(o[j][1])

\* params.<name>: the value of the property, undefined when it is absent
Prop(o, name) ==
    IF \E i \in 1..Len(o) : o[i][1] = name
    THEN o[CHOOSE i \in 1..Len(o) : o[i][1] = name][2]
    ELSE IF name = "lastNObservations" THEN UndefinedNum ELSE Undefined

ParamsOf(o) ==
    Query(Prop(o, "dataflowId"), Prop(o, "filter"), Prop(o, "startPeriod"),
          Prop(o, "endPeriod"), Prop(o, "lastNObservations"))

PropText(pair) ==
    IF pair[1] = "lastNObservations" THEN NumOr(pair[2], EmptyStr)
    ELSE IF pair[1] = "filter" THEN StrOr(pair[2], All)
    ELSE IF pair[1] = "dataflowId" THEN pair[2]
    ELSE StrOr(pair[2], EmptyStr)

generateCacheKeyInOrder(o) ==
    Join([i \in 1..Len(o) |-> PropText(o[i])], Colon)

generateCacheKeyOf(o) == generateCacheKey(ParamsOf(o))

\* generateCacheKey has no throw statement and touches no tier
generateCacheKeyThrows(o) == "none"

InitKey ==
    /\ InitQuiet
    /\ fn \in {[op |-> "generateCacheKey", done |-> FALSE, a |-> a, b |-> b,
                ka |-> EmptyStr, kb |-> EmptyStr, thrown |-> "none"] :
               a \in Objects, b \in {o \in Objects : DeclaredOrder(o)}}

ApplyKey ==
    /\ fn.op = "generateCacheKey"
    /\ ~fn.done
    /\ fn' = [fn EXCEPT !.done = TRUE,
                        !.ka = generateCacheKeyOf(fn.a),
                        !.kb = generateCacheKeyOf(fn.b),
                        !.thrown = generateCacheKeyThrows(fn.a)]
    /\ Quiet

SpecKey == InitKey /\ [][ApplyKey]_vars

KeysDerived == fn.op = "generateCacheKey" /\ fn.done

SameFields(a, b) ==
    \A i \in 1..Len(KeyFields) : Prop(a, KeyFields[i]) = Prop(b, KeyFields[i])

\* C16: two params objects with the same dataset id, filter, start period,
\* end period and result-count hint derive the identical key, whatever the
\* order their properties were written in and whether an optional property
\* is left out or written as undefined.
KeyOrderIndependent ==
    KeysDerived /\ SameFields(fn.a, fn.b) => fn.ka = fn.kb

\* C16 witness: the first object names the filter before the dataset id
\* and writes an optional property as undefined that the second leaves out.
ReorderedWithUndefined ==
    /\ KeysDerived
    /\ SameFields(fn.a, fn.b)
    /\ Len(fn.a) = 3
    /\ Len(fn.b) = 2
    /\ fn.a[1][1] = "filter"
    /\ fn.a[1][2] = FilterF
    /\ fn.ka = fn.kb

\* C17: two queries that differ in at least one of dataset id, filter,
\* start period, end period and result-count hint derive different keys.
KeyInjective ==
    KeysDerived /\ ~SameFields(fn.a, fn.b) => fn.ka # fn.kb

\* C18: deriving a key for an empty dataset identifier fails with
\* InvalidQuery, and no tier has been read or written by then.
EmptyDataflowRejected ==
    KeysDerived /\ Prop(fn.a, "dataflowId") = EmptyStr =>
        /\ fn.thrown = "InvalidQuery"
        /\ DOMAIN memoryCache = {}
        /\ table = {}
        /\ stats = EmptyBag


\* ------------------------------------------------------------------
\* getCacheStatistics and the SQL function oecd_get_cache_summary.
\* The log oecd_cache_stats is the bag stats, here with the timestamp of
\* each row; a NUMERIC rounded to two places is held as the integer
\* number of its hundredths (50.00 is 5000).
\* ------------------------------------------------------------------

MaxEvents == 3

WINDOW_HOURS == 24
SECONDS_PER_HOUR == 3600
PERCENT == 100
HUNDREDTHS == 100
TOP_LIMIT == 10

\* the hit types recordHit's insert gets into the table
HitTypes == {"supabase-db", "api-miss"}

StatKeys == Keys \cup WarmKeys

StatsEvent(k, type, t) ==
    [cache_key |-> k, dataflow_id |-> split0(k), hit_type |-> type,
     timestamp |-> t]

\* the rows keep of bag b, with their multiplicities
Rows(b, keep) == [r \in keep |-> b[r]]

stats_all(log, t) == log

stats_window(log, t) ==
    Rows(log, {r \in DOMAIN log :
                 r.timestamp >= t - WINDOW_HOURS * SECONDS_PER_HOUR})

hits(w) ==
    BagCardinality(Rows(w, {r \in DOMAIN w : r.hit_type # "api-miss"}))

misses(w) ==
    BagCardinality(Rows(w, {r \in DOMAIN w : r.hit_type = "api-miss"}))

\* ROUND(num / den, 2) in hundredths, halves away from zero
Round2(num, den) == (2 * num * HUNDREDTHS + den) \div (2 * den)

hit_rate(w) ==
    IF hits(w) + misses(w) > 0
    THEN Round2(hits(w) * PERCENT, hits(w) + misses(w))
    ELSE 0

cnt(w, d) ==
    BagCardinality(Rows(w, {r \in DOMAIN w : r.dataflow_id = d}))

Groups(w) == {r.dataflow_id : r \in DOMAIN w}

Min(a, b) == IF a < b THEN a ELSE b

\* GROUP BY dataflow_id ORDER BY cnt DESC LIMIT 10, then jsonb_agg ORDER BY
\* cnt DESC: every order of the groups that is descending in cnt; groups of
\* equal cnt come in an order the database does not fix.
top_10(w) ==
    {s \in [1..Min(TOP_LIMIT, Cardinality(Groups(w))) -> Groups(w)] :
        /\ \A i, j \in DOMAIN s : i # j => s[i] # s[j]
        /\ \A i, j \in DOMAIN s : i < j => cnt(w, s[i]) >= cnt(w, s[j])
        /\ \A d \in Groups(w) :
              (\A i \in DOMAIN s : s[i] # d) =>
                  \A i \in DOMAIN s : cnt(w, s[i]) >= cnt(w, d)}

most_popular_dataflows(w) ==
    {[i \in DOMAIN s |-> [dataflow_id |-> s[i], count |-> cnt(w, s[i])]] :
        s \in top_10(w)}

total_cached_queries(tbl) == Cardinality({r.cache_key : r \in tbl})

EmptyStatistics == [totalCached |-> 0, hitRate |-> 0, popularDataflows |-> <<>>]

\* A summary that hands on what was computed whatever the rpc answered.
getCacheStatisticsUnchecked(out, tbl, w, popular) ==
    [totalCached |-> total_cached_queries(tbl),
     hitRate |-> hit_rate(w),
     popularDataflows |-> popular]

\* the rpc answers with the summary row, with an error, or with no row
getCacheStatistics(out, tbl, w, popular) ==
    IF out \in {"error", "empty"} THEN EmptyStatistics
    ELSE [totalCached |-> total_cached_queries(tbl),
          hitRate |-> hit_rate(w),
          popularDataflows |-> popular]

InitStats ==
    /\ InitCache
    /\ warm = NoWarm
    /\ fn = [op |-> "getCacheStatistics", done |-> FALSE, out |-> "none",
             at |-> 0, res |-> EmptyStatistics, raised |-> FALSE]

\* recordHit's insert, accepted: one more row in oecd_cache_stats
LogEvent(k, type) ==
    /\ fn.op = "getCacheStatistics"
    /\ ~fn.done
    /\ BagCardinality(stats) < MaxEvents
    /\ stats' = stats (+) SetToBag({StatsEvent(k, type, now)})
    /\ UNCHANGED <<clock, ops, memoryCache, table, pc, call, last, lastStore,
                   invalidated, warm, fn>>

StatsTick ==
    /\ fn.op = "getCacheStatistics"
    /\ ~fn.done
    /\ clock + 1 < Len(Instants)
    /\ clock' = clock + 1
    /\ UNCHANGED <<ops, memoryCache, table, stats, pc, call, last, lastStore,
                   invalidated, warm, fn>>

GetStatistics(out) ==
    /\ fn.op = "getCacheStatistics"
    /\ ~fn.done
    /\ \E popular \in most_popular_dataflows(stats_window(stats, now)) :
          fn' = [fn EXCEPT !.done = TRUE, !.out = out, !.at = now,
                           !.res = getCacheStatistics(out, table,
                                       stats_window(stats, now), popular)]
    /\ Quiet

NextStats ==
    \/ \E k \in StatKeys, type \in HitTypes : LogEvent(k, type)
    \/ StatsTick
    \/ \E out \in {"ok", "error", "empty"} : GetStatistics(out)

SpecStats == InitStats /\ [][NextStats]_vars

StatisticsReturned == fn.op = "getCacheStatistics" /\ fn.done

\* the events of the log no older than 24 hours when the summary was asked
InWindow(r) == fn.at - r.timestamp <= WINDOW_HOURS * SECONDS_PER_HOUR

WindowEvents ==
    BagCardinality(Rows(stats, {r \in DOMAIN stats : InWindow(r)}))

WindowHits ==
    BagCardinality(Rows(stats, {r \in DOMAIN stats :
                                  InWindow(r) /\ r.hit_type # "api-miss"}))

DataflowsAscending == <<<<"A">>, <<"B">>>>

IdBefore(a, b) ==
    \E i, j \in DOMAIN DataflowsAscending :
        /\ DataflowsAscending[i] = a
        /\ DataflowsAscending[j] = b
        /\ i < j

\* C20: the popular-dataflows list holds at most 10 dataset identifiers, in
\* descending order of event count, and of two with the same count the one
\* with the smaller identifier comes first.
PopularTiesById ==
    StatisticsReturned =>
        LET l == fn.res.popularDataflows
        IN  /\ Len(l) <= TOP_LIMIT
            /\ \A i, j \in DOMAIN l :
                  i < j =>
                      \/ l[i].count > l[j].count
                      \/ /\ l[i].count = l[j].count
                         /\ IdBefore(l[i].dataflow_id, l[j].dataflow_id)


\* ------------------------------------------------------------------
\* The row storeCachedObservations builds, as a function of the number
\* of observations it is handed (lines 118-142).
\* ------------------------------------------------------------------

MaxOver == 2

LARGE_DATASET_THRESHOLD == 10000

Observations(n) == [i \in 1..n |-> "o"]

ObservationCounts ==
    {0, 1} \cup {LARGE_DATASET_THRESHOLD + d : d \in (0 - MaxOver)..MaxOver}

StoreCall(q, obs, t) ==
    [IdleCall EXCEPT !.op = "store", !.key = generateCacheKey(q),
                     !.dataflowId = q.dataflowId,
                     !.startPeriod = q.startPeriod, !.payload = obs,
                     !.reqAt = t]

\* lines 121-125: the only use of the threshold is a warning
warnsLargeDataset(c) == Len(c.payload) > LARGE_DATASET_THRESHOLD

InitRow ==
    /\ InitQuiet
    /\ fn \in {[op |-> "storeRow", done |-> FALSE,
                c |-> StoreCall(q, Observations(n), StartTime + Instants[i]),
                row |-> NoRow, warned |-> FALSE] :
               q \in Queries \cup {WarmQuery(d) : d \in WarmDataflows},
               n \in ObservationCounts, i \in 1..Len(Instants)}

ApplyStoreRow ==
    /\ fn.op = "storeRow"
    /\ ~fn.done
    /\ fn' = [fn EXCEPT !.done = TRUE, !.row = StoreRow(fn.c),
                        !.warned = warnsLargeDataset(fn.c)]
    /\ Quiet

SpecRow == InitRow /\ [][ApplyStoreRow]_vars

RowBuilt == fn.op = "storeRow" /\ fn.done

\* C21: a payload above the size threshold goes to the overflow tier and
\* its row holds the reference and no inline payload; a payload at or
\* below the threshold is stored inline.
OverflowAboveThreshold ==
    RowBuilt =>
        IF Len(fn.c.payload) > LARGE_DATASET_THRESHOLD
        THEN fn.row.data = NULL /\ fn.row.storage_url # NULL
        ELSE fn.row.data = fn.c.payload /\ fn.row.storage_url = NULL


\* ------------------------------------------------------------------
\* OECDClient.queryData, the lookup-or-fetch flow around the cache, run
\* by one handler, one call after the other.
\* ------------------------------------------------------------------

QueryHandler == 1

NoQuery ==
    [op |-> "queryData", phase |-> "idle", q |-> NULL, cached |-> NULL,
     fetched |-> FALSE, data |-> NULL, stored |-> FALSE, result |-> NULL,
     error |-> FALSE]

InitQuery ==
    /\ InitCache
    /\ warm = NoWarm
    /\ fn = NoQuery

\* const cached = await this.cache.getCachedObservations(cacheKey)
QueryStart(q) ==
    /\ fn.phase \in {"idle", "returned", "threw"}
    /\ GetStart(QueryHandler, q)
    /\ fn' = [NoQuery EXCEPT !.phase = "lookup", !.q = q]
    /\ UNCHANGED warm

\* if (cached) return cached
QueryHit ==
    /\ fn.phase = "lookup"
    /\ pc[QueryHandler] = "idle"
    /\ fn' = [fn EXCEPT !.phase = "returned", !.cached = last.result,
                        !.result = last.result]
    /\ UNCHANGED <<cacheVars, warm>>

\* A flow that answers with nothing when the upstream call rejects.
SwallowFetchError(f) == [f EXCEPT !.phase = "returned", !.fetched = TRUE]

\* the rejection of sdmxClient.queryData leaves queryData uncaught
OnQueryFetchError(f) ==
    [f EXCEPT !.phase = "threw", !.fetched = TRUE, !.error = TRUE]

\* the lookup returned null; sdmxClient.queryData is called and rejects
QueryFetchFails ==
    /\ fn.phase = "lookup"
    /\ pc[QueryHandler] = "missed"
    /\ FetchFails(QueryHandler)
    /\ fn' = OnQueryFetchError([fn EXCEPT !.cached = last.result])
    /\ UNCHANGED warm

\* the lookup returned null; sdmxClient.queryData resolves with obs and
\* storeCachedObservations is called
QueryFetched(obs) ==
    /\ fn.phase = "lookup"
    /\ pc[QueryHandler] = "missed"
    /\ StoreStart(QueryHandler, obs)
    /\ fn' = [fn EXCEPT !.phase = "store", !.cached = last.result,
                        !.fetched = TRUE, !.data = obs]
    /\ UNCHANGED warm

\* the store has returned; return data
QueryReturn ==
    /\ fn.phase = "store"
    /\ pc[QueryHandler] = "idle"
    /\ fn' = [fn EXCEPT !.phase = "returned", !.stored = TRUE,
                        !.result = fn.data]
    /\ UNCHANGED <<cacheVars, warm>>

NextQuery ==
    \/ \E q \in Queries : QueryStart(q)
    \/ QueryHit
    \/ QueryFetchFails
    \/ \E obs \in Payloads : QueryFetched(obs)
    \/ QueryReturn
    \/ \E i \in 1..MaxTicks : Tick(i) /\ UNCHANGED <<warm, fn>>
    \/ \E out \in Answers :
          /\ SelectExec(QueryHandler, out)
          /\ UNCHANGED <<warm, fn>>
    \/ SelectResume(QueryHandler) /\ UNCHANGED <<warm, fn>>
    \/ \E out \in Answers :
          /\ recordHit(QueryHandler, out)
          /\ UNCHANGED <<warm, fn>>
    \/ \E out \in Answers :
          /\ updateAccessStats(QueryHandler, out)
          /\ UNCHANGED <<warm, fn>>
    \/ \E out \in Answers :
          /\ UpsertExec(QueryHandler, out)
          /\ UNCHANGED <<warm, fn>>
    \/ StoreResume(QueryHandler) /\ UNCHANGED <<warm, fn>>

SpecQuery == InitQuery /\ [][NextQuery]_vars

QueryKey == generateCacheKey(fn.q)

JustReturned ==
    /\ \A h \in Handlers : pc[h] = "idle"
    /\ now = last.valAt

\* C23: once a lookup of k has been satisfied by the durable tier, with no
\* other call on k during it, a lookup of k issued right afterwards is
\* satisfied by the memory tier (the memory tier holds a valid entry for
\* k), whatever the age of the durable row.
PromotedServesNext ==
    ( /\ Returned("get")
      /\ last.tier = "supabase-db"
      /\ ~last.disturbed
      /\ JustReturned )
        => memoryHit(last.key, now)


\* A store has just returned: no call is under way, none ran across it and
\* the clock has not moved since it was issued.
StoreJustReturned ==
    /\ Returned("store")
    /\ ~last.disturbed
    /\ \A h \in Handlers : pc[h] = "idle"
    /\ now = last.reqAt

\* C24: when storeCachedObservations(k, P) has returned, the table holds a
\* row for k with payload P and the memory tier holds P for k; a store
\* whose upsert failed has not written the memory tier.
StoreWritesBothTiers ==
    StoreJustReturned =>
        /\ \E r \in RowsOf(table, last.key) : r.data = last.payload
        /\ last.key \in DOMAIN memoryCache
        /\ memoryCache[last.key].data = last.payload
        /\ last.dbres # "ok" =>
              ~( /\ last.key \in DOMAIN memoryCache
                 /\ memoryCache[last.key].cachedAt = last.reqAt )


\* C25: a store whose upsert is applied to a key that has a row leaves the
\* number of rows unchanged and leaves one row for the key, with the new
\* payload and with cached_at at the time of the new store, so that the
\* row is valid for lookups again.
UpsertOverwrites ==
    [][\A p \in Handlers :
          ( /\ pc[p] = "upsert"
            /\ pc'[p] = "upserted"
            /\ call'[p].dbres = "ok"
            /\ RowsOf(table, call[p].key) # {} )
            => /\ Cardinality(table') = Cardinality(table)
               /\ \E r \in table' :
                     /\ RowsOf(table', call[p].key) = {r}
                     /\ r.data = call[p].payload
                     /\ r.cached_at = call[p].reqAt
                     /\ r.cached_at = now
                     /\ isValid(now, r.cached_at,
                                calculateTTL(now, r.start_period))]_vars

\* C25 witness: the row stored before the start was served once from the
\* durable tier, then found expired by a second lookup, whose store has
\* been applied over it.
ExpiredRowOverwritten ==
    \E p \in Handlers :
        /\ pc[p] = "upserted"
        /\ call[p].dbres = "ok"
        /\ call[p].key = PriorRow.cache_key
        /\ ops = 2
        /\ \E e \in DOMAIN stats :
              e.hit_type = "supabase-db" /\ e.cache_key = call[p].key
        /\ call[p].reqAt - PriorRow.cached_at >= SHORT_TTL
        /\ call[p].payload # PriorRow.data
        /\ table = {StoreRow(call[p])}


\* a row without its access metadata
Core(r) ==
    [cache_key |-> r.cache_key, dataflow_id |-> r.dataflow_id,
     start_period |-> r.start_period, data |-> r.data,
     storage_url |-> r.storage_url, cached_at |-> r.cached_at]

\* handler p takes a step of a lookup
LookupStep(p) ==
    /\ pc'[p] # pc[p]
    /\ call[p].op = "get" \/ call'[p].op = "get"
    /\ pc[p] # "missed"

\* C26: no step of a lookup removes or adds a row or changes the key, the
\* payload or cached_at of one; a lookup that finds its row expired leaves
\* it in the table; all a lookup changes is accessed_at of the row of its
\* own key.
LookupFrame ==
    [][\A p \in Handlers :
          LookupStep(p) =>
             /\ Cardinality(table') = Cardinality(table)
             /\ {Core(r) : r \in table'} = {Core(r) : r \in table}
             /\ \A r \in table :
                   r.cache_key # call[p].key => r \in table']_vars

\* C26 witness: a row whose accessed_at a durable hit has moved is still
\* in the table, unchanged otherwise, after a later lookup found it
\* expired and returned null.
ExpiredRowLeftInPlace ==
    /\ Returned("get")
    /\ last.tier = "api-miss"
    /\ last.sel = "ok"
    /\ ops = 2
    /\ \E r \in RowsOf(table, last.key) :
          /\ Core(r) = Core(PriorRow)
          /\ r.accessed_at > r.cached_at
          /\ ~isValid(last.valAt, r.cached_at,
                      calculateTTL(last.valAt, r.start_period))


\* C27: a run of cleanMemoryCache removes every memory entry older than
\* 60 s and no entry younger than 60 s, adds none and changes none; it can
\* run in every state, whatever the handlers are doing.
SweepRemovesOld ==
    /\ []ENABLED (cleanMemoryCache /\ UNCHANGED <<warm, fn>>)
    /\ [][cleanMemoryCache =>
            /\ DOMAIN memoryCache' \subseteq DOMAIN memoryCache
            /\ \A k \in DOMAIN memoryCache :
                  /\ now - memoryCache[k].cachedAt > SWEEP_TTL
                        => k \notin DOMAIN memoryCache'
                  /\ now - memoryCache[k].cachedAt < SWEEP_TTL
                        => /\ k \in DOMAIN memoryCache'
                           /\ memoryCache'[k] = memoryCache[k]]_vars

\* C27 witness: two lookups missed and stored, a day apart; the entry of
\* the first is gone from the memory tier, that of the second is in it.
OldSweptYoungKept ==
    \E k1, k2 \in Keys :
        /\ ops = 2
        /\ lastStore[k1].set
        /\ lastStore[k2].set
        /\ now - lastStore[k2].doneAt > SWEEP_TTL
        /\ k2 \notin DOMAIN memoryCache
        /\ k1 \in DOMAIN memoryCache
        /\ now - memoryCache[k1].cachedAt < SWEEP_TTL


\* ------------------------------------------------------------------
\* preCachePopularDataflows: order and number of the upstream calls.
\* ------------------------------------------------------------------

\* the positions of the list the run is done with
WarmSettled == warm.skipped \cup warm.failed \cup {f.j : f \in warm.fetched}

\* C28: the upstream calls of a run are made one after the other in list
\* order: a call begins only when the one before it has settled, the calls
\* follow the positions of the list, and the run is at position i only
\* when the check, the fetch and the store of every earlier position have
\* finished or failed.
WarmSequential ==
    /\ \A n \in 1..Len(warm.calls) :
          /\ warm.ids[n] <= warm.i
          /\ n < Len(warm.calls) =>
                /\ warm.ends[n] <= warm.calls[n + 1]
                /\ warm.ids[n] < warm.ids[n + 1]
    /\ warm.phase # "off" =>
          /\ \A j \in 1..(warm.i - 1) : j \in WarmSettled
          /\ \A f \in warm.fetched :
                f.j < warm.i
                  => lastStore[generateCacheKey(WarmQuery(f.id))].set

\* C28 witness: a run has made two upstream calls, the first of which took
\* a second to settle.
TwoFetchesInTurn ==
    /\ warm.phase = "done"
    /\ Len(warm.calls) = 2
    /\ warm.ends[1] > warm.calls[1]
    /\ warm.ids = <<1, 2>>


WarmKeyOf(d) == generateCacheKey(Query(d, Undefined, Undefined, Undefined, 100))

\* the run is about to call queryFn for position warm.i
WarmFetching == warm.phase = "check" /\ pc[WarmHandler] = "missed"

\* C29: a run calls queryFn at most once for each position of its list,
\* and only after the lookup of the position's key returned null, never
\* for a position whose lookup returned an entry; the records of a fetch
\* that succeeded are handed to storeCachedObservations under the key of
\* (dataset id, lastNObservations 100).
WarmFetchesOnMiss ==
    /\ \A n, m \in 1..Len(warm.ids) : n # m => warm.ids[n] # warm.ids[m]
    /\ \A n \in 1..Len(warm.ids) : warm.ids[n] \notin warm.skipped
    /\ WarmFetching =>
          /\ call[WarmHandler].key = WarmKeyOf(warm.list[warm.i])
          /\ last.op = "get"
          /\ last.key = WarmKeyOf(warm.list[warm.i])
          /\ last.result = NULL
    /\ warm.phase = "check" /\ pc[WarmHandler] = "idle" =>
          /\ last.op = "get"
          /\ last.key = WarmKeyOf(warm.list[warm.i])
          /\ last.result # NULL
    /\ \A f \in warm.fetched :
          f.j < warm.i =>
             /\ lastStore[WarmKeyOf(f.id)].set
             /\ lastStore[WarmKeyOf(f.id)].payload = f.obs

\* C29 witness: the first position was found cached and skipped, the
\* second was fetched and stored.
SkippedThenFetched ==
    /\ warm.phase = "done"
    /\ warm.skipped = {1}
    /\ warm.ids = <<2>>
    /\ \E f \in warm.fetched :
          /\ f.j = 2
          /\ lastStore[WarmKeyOf(f.id)].payload = f.obs

\* C29 as stated: queryFn is never called for a dataset whose warm key has
\* a valid entry in the cache.
WarmNeverFetchesCached ==
    WarmFetching =>
        LET k == WarmKeyOf(warm.list[warm.i])
        IN  /\ ~memoryHit(k, now)
            /\ \A r \in RowsOf(table, k) :
                  ~isValid(now, r.cached_at,
                           calculateTTL(now, r.start_period))


\* the step in which getCacheStatistics returns
StatisticsStep ==
    fn.op = "getCacheStatistics" /\ ~fn.done /\ fn'.done

\* C30: getCacheStatistics does not raise; when the rpc fails or brings no
\* row it returns {totalCached: 0, hitRate: 0, popularDataflows: []}; and
\* it changes neither the table of entries nor the memory tier.
StatisticsNeverRaise ==
    /\ [](StatisticsReturned =>
            /\ ~fn.raised
            /\ fn.out # "ok" => fn.res = EmptyStatistics)
    /\ [][StatisticsStep => UNCHANGED <<table, memoryCache, stats>>]_vars

\* C30 witness: the rpc failed while the table held an entry and the
\* window held events.
FailedSummaryOverEvents ==
    /\ StatisticsReturned
    /\ fn.out = "error"
    /\ WindowEvents > 0
    /\ table # {}
    /\ fn.res = EmptyStatistics


\* ------------------------------------------------------------------
\* The log of access events under recordHit's inserts and the purge
\* oecd_cleanup_old_stats.
\* ------------------------------------------------------------------

\* A purge that empties the log.
oecd_cleanup_all_stats(log, t) == EmptyBag

\* DELETE FROM oecd_cache_stats WHERE timestamp < NOW() - INTERVAL '30 days'
oecd_cleanup_old_stats(log, t) ==
    Rows(log, {r \in DOMAIN log : ~(r.timestamp < t - STATS_RETENTION)})

InitPurge ==
    /\ InitCache
    /\ warm = NoWarm
    /\ fn = [op |-> "getCacheStatistics", done |-> FALSE, out |-> "none",
             at |-> 0, res |-> EmptyStatistics, raised |-> FALSE,
             purges |-> 0, deleted_count |-> 0]

\* the purge runs; deleted_count is its ROW_COUNT
Purge ==
    /\ ~fn.done
    /\ fn.purges < MaxTicks
    /\ stats' = oecd_cleanup_old_stats(stats, now)
    /\ fn' = [fn EXCEPT !.purges = @ + 1,
                        !.deleted_count = BagCardinality(stats)
                                            - BagCardinality(stats')]
    /\ UNCHANGED <<clock, ops, memoryCache, table, pc, call, last, lastStore,
                   invalidated, warm>>

NextPurge ==
    \/ \E k \in StatKeys, type \in HitTypes : LogEvent(k, type)
    \/ StatsTick
    \/ Purge

SpecPurge == InitPurge /\ [][NextPurge]_vars

\* the multiplicity of row r in bag b
CountOf(b, r) == IF r \in DOMAIN b THEN b[r] ELSE 0

\* C31: the access events are append-only: a step that is not the purge
\* keeps every event of the log as it is; the purge deletes every event
\* older than 30 days, keeps every younger one, and adds none.
EventsAppendOnly ==
    [][/\ fn'.purges = fn.purges =>
             \A r \in DOMAIN stats : CountOf(stats', r) >= stats[r]
       /\ fn'.purges # fn.purges =>
             /\ \A r \in DOMAIN stats' : CountOf(stats, r) = stats'[r]
             /\ \A r \in DOMAIN stats :
                   /\ now - r.timestamp > STATS_RETENTION
                         => r \notin DOMAIN stats'
                   /\ now - r.timestamp < STATS_RETENTION
                         => CountOf(stats', r) = stats[r]]_vars

\* C31 witness: a purge has deleted one event and left a younger one.
PurgedOneKeptOne ==
    /\ fn.op = "getCacheStatistics"
    /\ fn.purges = 1
    /\ fn.deleted_count = 1
    /\ \E r \in DOMAIN stats : now - r.timestamp < STATS_RETENTION


\* Under the lookups, stores, invalidations and warm runs of the cache
\* itself no step takes an event out of the log.
EventsKeptByCalls ==
    [][\A r \in DOMAIN stats : CountOf(stats', r) >= stats[r]]_vars


\* ------------------------------------------------------------------
\* getCacheStatistics called by a caller that wants the summary of the
\* last h hours.  The method declares no parameter: an argument handed to
\* it is dropped and the rpc is sent with hours: 24.
\* ------------------------------------------------------------------

WindowChoices == {1, WINDOW_HOURS, 7 * WINDOW_HOURS}

InitWindow ==
    /\ InitCache
    /\ warm = NoWarm
    /\ fn \in {[op |-> "getCacheStatistics", done |-> FALSE, out |-> "none",
                at |-> 0, res |-> EmptyStatistics, raised |-> FALSE,
                requested |-> h] : h \in WindowChoices}

SpecWindow == InitWindow /\ [][NextStats]_vars

RECURSIVE SumCounts(_)
SumCounts(l) == IF l = <<>> THEN 0 ELSE l[1].count + SumCounts(Tail(l))

EventsWithin(h) ==
    BagCardinality(Rows(stats, {r \in DOMAIN stats :
        fn.at - r.timestamp <= h * SECONDS_PER_HOUR}))

\* C32: an answered summary counts exactly the access events of the last
\* windowHours hours, windowHours being what the caller asked for.
SummaryOverRequestedWindow ==
    StatisticsReturned /\ fn.out = "ok" =>
        SumCounts(fn.res.popularDataflows) = EventsWithin(fn.requested)


\* ------------------------------------------------------------------
\* calculateTTL asked for the TTL of an entry of a given class.  The
\* function takes the start period only: the class of the entry is not
\* among its inputs.
\* ------------------------------------------------------------------

InitClassTTL ==
    /\ InitQuiet
    /\ fn \in {[op |-> "calculateTTL", done |-> FALSE, t |-> t,
                 startPeriod |-> sp, res |-> 0, class |-> c] :
                    t \in TTLTimes, sp \in StartPeriods,
                    c \in {"observations", "metadata"}}

SpecClassTTL == InitClassTTL /\ [][ApplyTTL]_vars

\* C33: the TTL of a metadata entry is 30 days, whatever the start period.
MetadataTTLThirtyDays ==
    fn.op = "calculateTTL" /\ fn.done /\ fn.class = "metadata" =>
        fn.res = 30 * SHORT_TTL


\* ------------------------------------------------------------------
\* A lookup in flight across an invalidation.
\* ------------------------------------------------------------------

InTable(k) == \E r \in table : r.cache_key = k

\* Handler p's lookup has read the durable row and waits to resume, while
\* an invalidation that overlapped it has completed and removed the entry
\* from both tiers; no other call is running.
ResumesAfterInvalidation(p) ==
    /\ pc[p] = "selected"
    /\ call[p].op = "get"
    /\ call[p].crossed
    /\ call[p].reply.data # NoRow
    /\ \A o \in Handlers \ {p} : Free(o)
    /\ call[p].key \notin DOMAIN memoryCache
    /\ ~InTable(call[p].key)

\* C34: a lookup that read the durable row of k before an invalidation of
\* k completed does not put k back into the memory tier when it resumes.
InvalidationNotUndone ==
    [][\A p \in Handlers :
          ResumesAfterInvalidation(p) =>
              call[p].key \notin DOMAIN memoryCache']_vars


\* ------------------------------------------------------------------
\* Two concurrent stores of one key.
\* ------------------------------------------------------------------

\* C35: once two concurrent stores of a key with different payloads have
\* both completed, their upserts applied, the memory tier and the durable
\* tier hold the same payload for the key.
RacingStoresAgree ==
    \A k \in Keys :
        /\ BothStored(k)
        /\ lastStore[k].dbOk
        /\ lastStore[k].rivalOk
        /\ lastStore[k].rival # lastStore[k].payload
        /\ k \in DOMAIN memoryCache
        => \A r \in RowsOf(table, k) : memoryCache[k].data = r.data


\* ------------------------------------------------------------------
\* invalidateDataflow on a cache that holds entries of two datasets.
\* Each key is in neither tier, in the durable tier only (stored by an
\* earlier process, or swept from memory), in both (just stored), or in
\* the memory tier only (stored while the upsert was rejected).
\* ------------------------------------------------------------------

FrameQueries ==
    Queries \cup {Query(<<"B">>, Undefined, Undefined, Undefined, 100)}

FrameRow(q) ==
    StoreRow([key |-> generateCacheKey(q), dataflowId |-> q.dataflowId,
              startPeriod |-> q.startPeriod, payload |-> <<"o1">>,
              reqAt |-> StartTime])

InitFrame ==
    /\ clock = 0
    /\ ops = 0
    /\ \E h \in [FrameQueries -> {"none", "row", "both", "memory"}] :
          LET inMemory == {generateCacheKey(q) :
                              q \in {x \in FrameQueries :
                                        h[x] \in {"both", "memory"}}}
              rows == {FrameRow(q) :
                          q \in {x \in FrameQueries : h[x] \in {"row", "both"}}}
              entries == [k \in inMemory |->
                             [data |-> <<"o1">>, cachedAt |-> StartTime]]
          IN  /\ memoryCache = entries
              /\ table = rows
              /\ fn = [op |-> "invalidateDataflow", done |-> FALSE,
                       memoryCache |-> entries, table |-> rows]
    /\ stats = EmptyBag
    /\ pc = [h \in Handlers |-> "idle"]
    /\ call = [h \in Handlers |-> IdleCall]
    /\ last = IdleCall
    /\ lastStore = [k \in Keys \cup WarmKeys |-> NoStore]
    /\ invalidated = {}
    /\ warm = NoWarm

NextFrame ==
    \/ \E p \in Handlers, d \in {q.dataflowId : q \in FrameQueries} :
          /\ ops = 0
          /\ InvalidateDataflowStart(p, d)
          /\ UNCHANGED <<warm, fn>>
    \/ \E p \in Handlers, out \in Outcomes :
          /\ DeleteExec(p, out)
          /\ UNCHANGED <<warm, fn>>
    \/ \E p \in Handlers :
          /\ InvalidateResume(p)
          /\ UNCHANGED <<warm, fn>>

SpecFrame == InitFrame /\ [][NextFrame]_vars

\* invalidateDataflow(D) has returned; fn holds the tiers as they were when
\* it was called.
DataflowInvalidated ==
    /\ fn.op = "invalidateDataflow"
    /\ last.op = "invalidateDataflow"
    /\ \A h \in Handlers : pc[h] = "idle"

DatasetOf(k) ==
    (CHOOSE q \in FrameQueries : generateCacheKey(q) = k).dataflowId

OtherDatasetsKept ==
    /\ \A k \in DOMAIN fn.memoryCache :
          DatasetOf(k) # last.dataflowId
            => /\ k \in DOMAIN memoryCache
               /\ memoryCache[k] = fn.memoryCache[k]
    /\ \A r \in fn.table :
          r.dataflow_id # last.dataflowId => r \in table

\* C36: invalidateDataflow(D) leaves every memory entry and every row of
\* another dataset unchanged, and of the entries held in both tiers it
\* removes the memory entry exactly when it removes the row.
InvalidateDataflowFrame ==
    DataflowInvalidated =>
        /\ OtherDatasetsKept
        /\ \A k \in DOMAIN fn.memoryCache :
              RowsOf(fn.table, k) # {}
                => (k \notin DOMAIN memoryCache <=> RowsOf(table, k) = {})

\* The same, for the calls whose delete was applied.
InvalidateDataflowFrameApplied ==
    DataflowInvalidated /\ last.dbres = "ok" => InvalidateDataflowFrame

InvalidateDataflowKeepsOthers == DataflowInvalidated => OtherDatasetsKept


\* ------------------------------------------------------------------
\* The outcome a lookup records against the result it returns.
\* ------------------------------------------------------------------

LookupReturned == last.op = "get"

\* C37: a lookup returns null exactly when the event it records is an
\* 'api-miss'; one recorded as a hit returns a payload, and the event
\* appended to the log carries the tier the lookup answered from.
OutcomeAgreesWithResult ==
    LookupReturned =>
        /\ last.result = NULL <=> last.tier = "api-miss"
        /\ last.tier \in {"memory", "supabase-db"} => last.result \in Payloads
        /\ last.appended = 1 => CountOf(stats, StatsRow(last)) >= 1

DurableHitRecorded ==
    /\ LookupReturned
    /\ last.tier = "supabase-db"
    /\ last.appended = 1
    /\ last.result \in Payloads


\* ------------------------------------------------------------------
\* recordHit for the key of a query: the row it hands to the insert.
\* The dataset identifier is whatever string the caller asked for.
\* ------------------------------------------------------------------

EventDataflows == {<<"A">>, <<"B">>, <<"A", ":", "B">>, <<"A", "@", "B">>}

EventQueries ==
    {Query(d, f, s, e, n) :
        d \in EventDataflows, f \in {Undefined, All, FilterF},
        s \in {Undefined, Y2020}, e \in {Undefined, Y2020},
        n \in {UndefinedNum, 100}}

InitEvent ==
    /\ InitQuiet
    /\ fn \in {[op |-> "recordHit", done |-> FALSE, params |-> q,
                hitType |-> h, row |-> StatsRow([key |-> EmptyStr,
                                                 tier |-> "none"])] :
               q \in EventQueries, h \in {"memory", "supabase-db", "api-miss"}}

ApplyEvent ==
    /\ fn.op = "recordHit"
    /\ ~fn.done
    /\ fn' = [fn EXCEPT !.done = TRUE,
                        !.row = StatsRow([key |-> generateCacheKey(fn.params),
                                          tier |-> fn.hitType])]
    /\ Quiet

SpecEvent == InitEvent /\ [][ApplyEvent]_vars

\* C38: the dataset identifier written into an access event is the
\* dataset identifier of the query the key was generated from.
EventCarriesDataflow ==
    fn.op = "recordHit" /\ fn.done =>
        fn.row.dataflow_id = fn.params.dataflowId

\* The same, for the identifiers that hold no ':'.
EventCarriesPlainDataflow ==
    /\ fn.op = "recordHit"
    /\ fn.done
    /\ \A i \in 1..Len(fn.params.dataflowId) : fn.params.dataflowId[i] # ":"
    => fn.row.dataflow_id = fn.params.dataflowId


\* ------------------------------------------------------------------
\* The expiry boundary of the memory tier, in the sweep and the lookup.
\* ------------------------------------------------------------------

\* C39: in every state and for every entry of the memory tier, a run of
\* cleanMemoryCache removes the entry exactly when a lookup at the same
\* instant would reject it as expired.
SweepMatchesLookup ==
    \A k \in DOMAIN memoryCache :
        ENABLED (cleanMemoryCache /\ k \notin DOMAIN memoryCache')
            <=> ~memoryHit(k, now)

=============================================================================
